---- MODULE Spec2Model ----
(***************************************************************************)
(* OpenPhotoFrame (src/backend/program.py): a Flask backend that scans an  *)
(* image directory and answers a random selection of image URLs, and the   *)
(* browser script that fetches a selection every 30 s and lays it out.     *)
(*                                                                         *)
(* Strings are sequences of one-character strings; a path is a sequence of *)
(* components, each component a string.                                    *)
(***************************************************************************)
EXTENDS Integers, Sequences, FiniteSets, TLC

VARIABLES
  IMAGE_DIR,   \* module global IMAGE_DIR: None or the configured path
  rootStatus,  \* the file system at IMAGE_DIR: "ok", "missing", "unreadable"
  tree,        \* the files below the root, in the order scandir lists them
  scan,        \* outcome of the last direct call of list_image_files(IMAGE_DIR)
  resp,        \* last answer of GET /api/random-images
  container,   \* children of <div id="photoContainer">
  timerLeft,   \* ticks until the setInterval timer fires next
  armed,       \* the setInterval timer exists
  cycles,      \* calls of fetchAndDisplayImages suspended at an await
  last         \* how the most recent call of fetchAndDisplayImages ended

vars == <<IMAGE_DIR, rootStatus, tree, scan, resp, container, timerLeft, armed, cycles, last>>

serverVars == <<IMAGE_DIR, rootStatus, tree, scan, resp>>
clientVars == <<container, timerLeft, armed, cycles, last>>

(***************************************************************************)
(* Bounds of the model                                                     *)
(***************************************************************************)
MaxFiles == 2      \* files in a directory tree drawn from the name pool
MaxImages == 6     \* images in the largest directory the picker is run on
MaxLatency == 4    \* ticks after which a pending request has settled
ClientImages == 3  \* images in the largest directory the page is served from
MaxUrls == 6       \* longest array handed to the renderer on its own

(***************************************************************************)
(* Strings                                                                 *)
(***************************************************************************)
None == "None"

Min(a, b) == IF a < b THEN a ELSE b

UpperCase == <<"J", "P", "G", "E", "N">>
LowerCase == <<"j", "p", "g", "e", "n">>

\* str.lower(), one character
LowerChar(c) ==
  IF \E i \in 1..Len(UpperCase) : UpperCase[i] = c
    THEN LowerCase[CHOOSE i \in 1..Len(UpperCase) : UpperCase[i] = c]
    ELSE c

\* str.lower()
Lower(s) == [i \in 1..Len(s) |-> LowerChar(s[i])]

\* str.endswith(suffix)
EndsWith(s, suffix) ==
  /\ Len(s) >= Len(suffix)
  /\ SubSeq(s, Len(s) - Len(suffix) + 1, Len(s)) = suffix

allowed_extensions ==
  << <<".", "j", "p", "g">>,
     <<".", "j", "p", "e", "g">>,
     <<".", "p", "n", "g">>,
     <<".", "g", "i", "f">>,
     <<".", "b", "m", "p">>,
     <<".", "w", "e", "b", "p">> >>

\* str.endswith(tuple): true when the string ends with one of the suffixes
EndsWithAny(s, suffixes) ==
  \E i \in 1..Len(suffixes) : EndsWith(s, suffixes[i])

\* line 29, without lower(): the comparison is case-sensitive
IsImageNameCaseSensitive(f) == EndsWithAny(f, allowed_extensions)

\* line 29: f.lower().endswith(allowed_extensions)
IsImageName(f) == EndsWithAny(Lower(f), allowed_extensions)

(***************************************************************************)
(* Paths                                                                   *)
(***************************************************************************)
\* length of the longest common prefix of two sequences
RECURSIVE CommonPrefixLen(_, _)
CommonPrefixLen(p, q) ==
  IF p = <<>> \/ q = <<>> \/ Head(p) # Head(q) THEN 0
  ELSE 1 + CommonPrefixLen(Tail(p), Tail(q))

\* os.path.join(root, f)
PathJoin(root, f) == Append(root, f)

\* os.path.relpath(path, start) for absolute, normalised operands
RelPath(path, start) ==
  LET i == CommonPrefixLen(path, start)
  IN  [k \in 1..(Len(start) - i) |-> <<".", ".">>] \o SubSeq(path, i + 1, Len(path))

(***************************************************************************)
(* list_image_files                                                        *)
(***************************************************************************)
\* directories below the root in the order os.walk visits them (top-down)
WalkOrder == << <<>>, << <<"s">> >>, << <<"s">>, <<"d">> >> >>

\* the names scandir lists in directory d, in listing order
RECURSIVE FilesIn(_, _)
FilesIn(t, d) ==
  IF t = <<>> THEN <<>>
  ELSE IF Head(t).dir = d THEN <<Head(t).name>> \o FilesIn(Tail(t), d)
  ELSE FilesIn(Tail(t), d)

\* lines 28-32: the inner loop over the files of one walked directory
RECURSIVE ScanFiles(_, _, _)
ScanFiles(directory, root, files) ==
  IF files = <<>> THEN <<>>
  ELSE (IF IsImageName(Head(files))
          THEN <<RelPath(PathJoin(root, Head(files)), directory)>>
          ELSE <<>>)
       \o ScanFiles(directory, root, Tail(files))

\* lines 27-32: the loop over os.walk(directory)
RECURSIVE Walk(_, _, _)
Walk(directory, t, k) ==
  IF k > Len(WalkOrder) THEN <<>>
  ELSE ScanFiles(directory, directory \o WalkOrder[k], FilesIn(t, WalkOrder[k]))
       \o Walk(directory, t, k + 1)

\* lines 20-34: os.walk(None) raises TypeError from os.fspath; an OSError of
\* scandir (missing or unreadable directory) is swallowed by os.walk
list_image_files(directory, status, t) ==
  IF directory = None THEN [exc |-> "TypeError", value |-> <<>>]
  ELSE IF status # "ok" THEN [exc |-> "none", value |-> <<>>]
  ELSE [exc |-> "none", value |-> Walk(directory, t, 1)]

(***************************************************************************)
(* random_images                                                           *)
(***************************************************************************)
MinCount == 1   \* random.randint(1, 5)
MaxCount == 5

\* url_for('get_image', filename=filename, _external=True): the address of
\* the /images/<path:filename> route, a path below <host>/images
Host == <<"h">>
ImagesRoute == <<"i", "m", "a", "g", "e", "s">>
url_for(filename) == <<Host, ImagesRoute>> \o filename

\* the filename the route /images/<path:filename> extracts from such a URL
FilenameOfUrl(url) == SubSeq(url, 3, Len(url))

\* the sequences of k positions of 1..n, repeats allowed
RECURSIVE Draws(_, _)
Draws(k, n) ==
  IF k = 0 THEN {<<>>}
  ELSE UNION { { Append(s, j) : j \in 1..n } : s \in Draws(k - 1, n) }

\* the sequences of k distinct positions of 1..n
RECURSIVE DistinctDraws(_, _)
DistinctDraws(k, n) ==
  IF k = 0 THEN {<<>>}
  ELSE UNION { { Append(s, j) : j \in (1..n) \ { s[i] : i \in 1..Len(s) } } :
               s \in DistinctDraws(k - 1, n) }

\* a sample drawn with replacement: positions may repeat
SampleWithReplacement(population, k) ==
  { [i \in 1..k |-> population[f[i]]] : f \in Draws(k, Len(population)) }

\* random.sample(population, k): k distinct positions, in any order
Sample(population, k) ==
  { [i \in 1..k |-> population[f[i]]] : f \in DistinctDraws(k, Len(population)) }

\* lines 45-48
Selected(images, count) ==
  IF Len(images) >= count THEN Sample(images, count) ELSE {images}

\* lines 39-52 with the emptiness test of lines 40-42 left out
RandomImagesNoEmptyTest(directory, status, t) ==
  LET r == list_image_files(directory, status, t)
  IN  IF r.exc # "none"
        THEN {[status |-> "500", body |-> <<>>, count |-> 0]}
        ELSE UNION { { [status |-> "200",
                        body |-> [i \in 1..Len(sel) |-> url_for(sel[i])],
                        count |-> c] : sel \in Selected(r.value, c) } :
                     c \in MinCount..MaxCount }

\* lines 39-52: every answer the handler can give; count is the drawn count,
\* 0 when none was drawn.  An exception of the scan leaves the handler and
\* Flask answers 500.
RandomImages(directory, status, t) ==
  LET r == list_image_files(directory, status, t)
  IN  IF r.exc # "none"
        THEN {[status |-> "500", body |-> <<>>, count |-> 0]}
      ELSE IF r.value = <<>>
        THEN {[status |-> "200", body |-> <<>>, count |-> 0]}
      ELSE UNION { { [status |-> "200",
                      body |-> [i \in 1..Len(sel) |-> url_for(sel[i])],
                      count |-> c] : sel \in Selected(r.value, c) } :
                   c \in MinCount..MaxCount }

(***************************************************************************)
(* Directory trees the scanner and the picker are run on                   *)
(***************************************************************************)
\* IMAGE_DIR as the environment gives it: a path, or the empty string
ConfiguredDir == << <<"v">>, <<"p">> >>
EmptyPath == <<>>

Stems == { <<>>, <<"n", "o", "t">>, <<"a", ".", "t", "a", "r">> }

Suffixes ==
  { <<".", "j", "p", "g">>, <<".", "J", "P", "G">>, <<".", "j", "p", "e", "g">>,
    <<".", "P", "N", "G">>, <<".", "g", "i", "f">>, <<".", "b", "m", "p">>,
    <<".", "w", "e", "b", "p">>, <<"j", "p", "g">>, <<".", "t", "x", "t">>,
    <<".", "j", "p", "g", ".", "t", "x", "t">> }

\* every name once: the names without a stem in the root, those with the
\* stem "not" one level down, those with the stem "a.tar" two levels down;
\* and the name ".jpg" in every directory
Pool ==
  { [dir |-> WalkOrder[((Len(st) + 1) \div 2)], name |-> st \o su] :
      st \in Stems \ {<<>>}, su \in Suffixes }
  \cup { [dir |-> WalkOrder[1], name |-> su] : su \in Suffixes }
  \cup { [dir |-> WalkOrder[k], name |-> <<".", "j", "p", "g">>] : k \in 1..Len(WalkOrder) }

\* the sequences of at most n distinct pool entries
RECURSIVE Listings(_)
Listings(n) ==
  IF n = 0 THEN {<<>>}
  ELSE LET P == Listings(n - 1)
       IN  P \cup { Append(x[1], x[2]) :
                      x \in { y \in P \X Pool :
                                \A i \in 1..Len(y[1]) : y[1][i] # y[2] } }

DigitChar == <<"1", "2", "3", "4", "5", "6", "7", "8", "9">>

\* a directory of MaxImages images spread over the three directories
PickListing ==
  [i \in 1..MaxImages |->
     [dir |-> WalkOrder[((i - 1) % Len(WalkOrder)) + 1],
      name |-> <<DigitChar[i]>> \o allowed_extensions[((i - 1) % Len(allowed_extensions)) + 1]]]

PickTrees == { SubSeq(PickListing, 1, k) : k \in 0..MaxImages }

ClientTrees == { SubSeq(PickListing, 1, k) : k \in 0..Min(ClientImages, MaxImages) }

Trees == Listings(MaxFiles) \cup PickTrees

NoScan == [exc |-> "nocall", value |-> <<>>]
NoResp == [status |-> "none", body |-> <<>>, count |-> 0]
NoLast == [kind |-> "none", urls |-> <<>>, before |-> <<>>, overtook |-> FALSE]

\* the file system and the configuration the process is started with
InitFileSystem(trees) ==
  \/ /\ IMAGE_DIR \in {None, EmptyPath}
     /\ rootStatus = "missing"
     /\ tree = <<>>
  \/ /\ IMAGE_DIR = ConfiguredDir
     /\ \/ rootStatus = "missing" /\ tree = <<>>
        \/ rootStatus = "unreadable" /\ tree \in PickTrees
        \/ rootStatus = "ok" /\ tree \in trees

Init ==
  /\ InitFileSystem(Trees)
  /\ scan = NoScan
  /\ resp = NoResp
  /\ container = <<>>
  /\ timerLeft = 0
  /\ armed = FALSE
  /\ cycles = <<>>
  /\ last = NoLast

\* a caller invokes list_image_files(IMAGE_DIR)
CallListImageFiles ==
  /\ scan = NoScan
  /\ scan' = list_image_files(IMAGE_DIR, rootStatus, tree)
  /\ UNCHANGED <<IMAGE_DIR, rootStatus, tree, resp>>
  /\ UNCHANGED clientVars

\* GET /api/random-images
GetRandomImages ==
  /\ resp = NoResp
  /\ \E r \in RandomImages(IMAGE_DIR, rootStatus, tree) : resp' = r
  /\ UNCHANGED <<IMAGE_DIR, rootStatus, tree, scan>>
  /\ UNCHANGED clientVars

Next == CallListImageFiles \/ GetRandomImages

Spec == Init /\ [][Next]_vars

(***************************************************************************)
(* The browser script: layouts                                             *)
(***************************************************************************)
Rect(l, t, w, h) == [left |-> l, top |-> t, width |-> w, height |-> h]

\* lines 92-144: layouts[n] is the list of templates under key n
layouts ==
  << << << Rect("0%", "0%", "100%", "100%") >> >>,
     << << Rect("0%", "0%", "50%", "100%"),
           Rect("50%", "0%", "50%", "100%") >>,
        << Rect("0%", "0%", "100%", "50%"),
           Rect("0%", "50%", "100%", "50%") >> >>,
     << << Rect("0%", "0%", "60%", "100%"),
           Rect("60%", "0%", "40%", "50%"),
           Rect("60%", "50%", "40%", "50%") >>,
        << Rect("0%", "0%", "100%", "60%"),
           Rect("0%", "60%", "50%", "40%"),
           Rect("50%", "60%", "50%", "40%") >> >>,
     << << Rect("0%", "0%", "50%", "50%"),
           Rect("50%", "0%", "50%", "50%"),
           Rect("0%", "50%", "50%", "50%"),
           Rect("50%", "50%", "50%", "50%") >> >>,
     << << Rect("0%", "0%", "50%", "50%"),
           Rect("50%", "0%", "50%", "50%"),
           Rect("0%", "50%", "33.33%", "50%"),
           Rect("33.33%", "50%", "33.33%", "50%"),
           Rect("66.66%", "50%", "33.33%", "50%") >>,
        << Rect("0%", "0%", "100%", "60%"),
           Rect("0%", "60%", "25%", "40%"),
           Rect("25%", "60%", "25%", "40%"),
           Rect("50%", "60%", "25%", "40%"),
           Rect("75%", "60%", "25%", "40%") >> >> >>

\* line 160: layouts[count] || layouts[1]
Templates(count) ==
  IF count \in DOMAIN layouts THEN layouts[count] ELSE layouts[1]

(***************************************************************************)
(* The browser script: fetchAndDisplayImages                               *)
(***************************************************************************)
NoStyle == Rect("", "", "", "")

\* lines 167-173: an <img> with its source and its rectangle
Img(url, pos) == [tag |-> "img", src |-> url, style |-> pos, text |-> ""]

\* line 156: the content innerHTML is set to when no image came
Placeholder == << [tag |-> "p", src |-> <<>>, style |-> NoStyle, text |-> "No images found"] >>

\* lines 153-175 without the clearing of line 164
RenderUrlsNoClear(before, imageUrls, t) ==
  LET count == Len(imageUrls)
  IN  IF count = 0
        THEN [container |-> Placeholder, kind |-> "placeholder"]
        ELSE LET layout == Templates(count)[t]
                 placed == Min(count, Len(layout))
             IN  [container |-> before \o [i \in 1..placed |-> Img(imageUrls[i], layout[i])],
                  kind |-> IF count > Len(layout) THEN "throw" ELSE "render"]

\* lines 153-175, run on the parsed array with template number t.  The
\* forEach callback reads pos.left of layout[index]: past the end of the
\* layout pos is undefined and the read throws TypeError, which leaves the
\* elements appended so far in the container and enters the catch block.
RenderUrls(before, imageUrls, t) ==
  LET count == Len(imageUrls)
  IN  IF count = 0
        THEN [container |-> Placeholder, kind |-> "placeholder"]
        ELSE LET layout == Templates(count)[t]
                 placed == Min(count, Len(layout))
             IN  [container |-> [i \in 1..placed |-> Img(imageUrls[i], layout[i])],
                  kind |-> IF count > Len(layout) THEN "throw" ELSE "render"]

\* a catch block that blanks the container
CatchErrorClears(before) == <<>>

\* lines 176-178: the catch block only logs; the container it leaves
CatchError(before) == before

\* line 183: setInterval(fetchAndDisplayImages, 30000)
IntervalMillis == 30000
TickMillis == 10 * 1000   \* one Tick step stands for ten seconds
Interval == IntervalMillis \div TickMillis

\* the interval written in seconds where milliseconds are meant,
\* setInterval(f, 30): the timer is due again within the same tick
PeriodTooShort == (IntervalMillis \div 1000) \div TickMillis

\* line 183: the period the timer is armed with
Period == Interval

\* a call of fetchAndDisplayImages suspended at `await fetch(...)` (line 151)
NewCycle == [age |-> 0, stage |-> "fetch"]

RemoveAt(s, i) == SubSeq(s, 1, i - 1) \o SubSeq(s, i + 1, Len(s))

\* lines 182-183 have run: the first call is suspended at its fetch and the
\* timer is armed
InitClient ==
  /\ InitFileSystem(ClientTrees)
  /\ scan = NoScan
  /\ resp = NoResp
  /\ container = <<>>
  /\ timerLeft = Period
  /\ armed = TRUE
  /\ cycles = <<NewCycle>>
  /\ last = NoLast

\* time passes; the timer fires when it is due and a pending request has
\* settled after MaxLatency ticks
Tick ==
  /\ armed => timerLeft > 0
  /\ \A i \in 1..Len(cycles) : cycles[i].age < MaxLatency
  /\ timerLeft' = IF armed THEN timerLeft - 1 ELSE timerLeft
  /\ cycles' = [i \in 1..Len(cycles) |-> [cycles[i] EXCEPT !.age = @ + 1]]
  /\ UNCHANGED <<container, armed, last>>
  /\ UNCHANGED serverVars

\* a one-shot timer (setTimeout): it is gone once it has fired
TimerFireOnce ==
  /\ armed
  /\ timerLeft = 0
  /\ cycles' = Append(cycles, NewCycle)
  /\ timerLeft' = Period
  /\ armed' = FALSE
  /\ UNCHANGED <<container, last>>
  /\ UNCHANGED serverVars

\* line 183: the timer calls fetchAndDisplayImages, which runs to line 151
TimerFire ==
  /\ armed
  /\ timerLeft = 0
  /\ cycles' = Append(cycles, NewCycle)
  /\ timerLeft' = Period
  /\ UNCHANGED <<container, armed, last>>
  /\ UNCHANGED serverVars

\* line 151: fetch rejects (network error); lines 176-178
FetchFails(i) ==
  /\ cycles[i].stage = "fetch"
  /\ cycles' = RemoveAt(cycles, i)
  /\ container' = CatchError(container)
  /\ last' = [kind |-> "neterr", urls |-> <<>>, before |-> container, overtook |-> i > 1]
  /\ UNCHANGED <<timerLeft, armed>>
  /\ UNCHANGED serverVars

\* line 151: fetch resolves with the response; the call suspends at line 152
FetchResolves(i) ==
  /\ cycles[i].stage = "fetch"
  /\ cycles' = [cycles EXCEPT ![i].stage = "json"]
  /\ UNCHANGED <<container, timerLeft, armed, last>>
  /\ UNCHANGED serverVars

\* the arrays GET /api/random-images answers with status 200
JsonBodies ==
  { r.body : r \in { x \in RandomImages(IMAGE_DIR, rootStatus, tree) : x.status = "200" } }

\* line 152: response.json() rejects, because the body is no JSON (the page
\* of a 500 answer) or was cut short on the way; lines 176-178
JsonFails(i) ==
  /\ cycles[i].stage = "json"
  /\ cycles' = RemoveAt(cycles, i)
  /\ container' = CatchError(container)
  /\ last' = [kind |-> "parseerr", urls |-> <<>>, before |-> container, overtook |-> i > 1]
  /\ UNCHANGED <<timerLeft, armed>>
  /\ UNCHANGED serverVars

\* lines 153-179 on the parsed array: the random template of line 161, the
\* rendering, and the catch block when the rendering throws
Display(imageUrls, overtook) ==
  \E t \in 1..Len(Templates(Len(imageUrls))) :
    LET out == RenderUrls(container, imageUrls, t)
    IN  /\ container' = IF out.kind = "throw"
                          THEN CatchError(out.container)
                          ELSE out.container
        /\ last' = [kind |-> out.kind, urls |-> imageUrls, before |-> <<>>,
                    overtook |-> overtook]

\* line 152: response.json() resolves with the array the server answered;
\* lines 153-175 run to the end without another await
JsonResolves(i) ==
  /\ cycles[i].stage = "json"
  /\ cycles' = RemoveAt(cycles, i)
  /\ \E imageUrls \in JsonBodies : Display(imageUrls, i > 1)
  /\ UNCHANGED <<timerLeft, armed>>
  /\ UNCHANGED serverVars

Settle ==
  \E i \in 1..Len(cycles) :
    FetchFails(i) \/ FetchResolves(i) \/ JsonFails(i) \/ JsonResolves(i)

NextClient ==
  \/ Tick
  \/ TimerFire
  \/ \E i \in 1..Len(cycles) : FetchFails(i)
  \/ \E i \in 1..Len(cycles) : FetchResolves(i)
  \/ \E i \in 1..Len(cycles) : JsonFails(i)
  \/ \E i \in 1..Len(cycles) : JsonResolves(i)

SpecClient == InitClient /\ [][NextClient]_vars

\* the event loop runs a due timer, time passes, and every request ends
SpecClientFair ==
  /\ SpecClient
  /\ WF_vars(Tick)
  /\ WF_vars(TimerFire)
  /\ WF_vars(Settle)

(***************************************************************************)
(* Lines 153-179 on their own, run on any array of URLs                    *)
(***************************************************************************)
RenderUrlPool == { url_for(<<PickListing[i].name>>) : i \in 1..2 }

InitRender ==
  /\ IMAGE_DIR = ConfiguredDir
  /\ rootStatus = "ok"
  /\ tree = <<>>
  /\ scan = NoScan
  /\ resp = NoResp
  /\ container = <<>>
  /\ timerLeft = 0
  /\ armed = FALSE
  /\ cycles = <<>>
  /\ last = NoLast

\* response.json() resolved with an array of n URLs
RenderArray ==
  /\ \E n \in 0..MaxUrls : \E imageUrls \in [1..n -> RenderUrlPool] :
       Display(imageUrls, FALSE)
  /\ UNCHANGED <<timerLeft, armed, cycles>>
  /\ UNCHANGED serverVars

NextRender == RenderArray

SpecRender == InitRender /\ [][NextRender]_vars

(***************************************************************************)
(* Properties                                                              *)
(***************************************************************************)
Range(s) == { s[i] : i \in 1..Len(s) }

\* what list_image_files answers for the directory of the current state
Scanned == list_image_files(IMAGE_DIR, rootStatus, tree)

\* C1: for a scan of K >= 1 paths the picker draws a count in 1..5 and
\* answers exactly min(count, K) URLs, so between 1 and min(5, K); every URL
\* is the address of a scanned path, no path occurs twice, and when
\* K < count the answer is the whole scanned list, each path once.
C1_SelectionOfScan ==
  (resp.status # "none" /\ Scanned.exc = "none" /\ Len(Scanned.value) >= 1) =>
    LET K == Len(Scanned.value)
        n == Len(resp.body)
    IN  /\ resp.status = "200"
        /\ resp.count \in 1..5
        /\ n = Min(resp.count, K)
        /\ n >= 1 /\ n <= Min(5, K)
        /\ \A i \in 1..n :
             /\ FilenameOfUrl(resp.body[i]) \in Range(Scanned.value)
             /\ resp.body[i] = url_for(FilenameOfUrl(resp.body[i]))
        /\ \A i, j \in 1..n :
             i # j => FilenameOfUrl(resp.body[i]) # FilenameOfUrl(resp.body[j])
        /\ K < resp.count =>
             [i \in 1..n |-> FilenameOfUrl(resp.body[i])] = Scanned.value

\* C1 witness: a sample of several paths out of a longer scanned list
C1_Witness ==
  /\ resp.status = "200"
  /\ Len(Scanned.value) > resp.count
  /\ resp.count >= 3
  /\ Len(resp.body) = resp.count

\* C3: with the root missing or unreadable, or IMAGE_DIR unset, the scanner
\* returns the empty sequence without an exception and GET
\* /api/random-images answers an empty list, not an HTTP error.
C3_ScannerFailsSilently ==
  (IMAGE_DIR = None \/ rootStatus # "ok") =>
    /\ scan.exc # "nocall" => scan = [exc |-> "none", value |-> <<>>]
    /\ resp.status # "none" => (resp.status = "200" /\ resp.body = <<>>)

\* the extension of a file name: what follows its last dot
HasExtension(name, ext) ==
  \E i \in 1..Len(name) :
    /\ name[i] = "."
    /\ \A j \in (i + 1)..Len(name) : name[j] # "."
    /\ Len(name) - i = Len(ext)
    /\ \A j \in 1..Len(ext) : LowerChar(name[i + j]) = ext[j]

ImageExtensions ==
  { <<"j", "p", "g">>, <<"j", "p", "e", "g">>, <<"p", "n", "g">>,
    <<"g", "i", "f">>, <<"b", "m", "p">>, <<"w", "e", "b", "p">> }

\* the paths, relative to the root, of the image files of a tree
ImagePathsOf(t) ==
  { t[i].dir \o <<t[i].name>> :
      i \in { k \in 1..Len(t) : \E ext \in ImageExtensions : HasExtension(t[k].name, ext) } }

\* C4: a scan of a readable tree returns exactly the files, at any depth,
\* whose extension is jpg, jpeg, png, gif, bmp or webp in any letter case,
\* each as a path relative to the root and each once.
C4_ScanIsExactlyTheImages ==
  (scan.exc = "none" /\ rootStatus = "ok") =>
    /\ Range(scan.value) = ImagePathsOf(tree)
    /\ Len(scan.value) = Cardinality(ImagePathsOf(tree))

\* C4 witness: a.tar.PNG two levels down is returned, notjpg one level down
\* is not
C4_Witness ==
  /\ scan.exc = "none"
  /\ rootStatus = "ok"
  /\ \E i, j \in 1..Len(tree) :
       /\ tree[i].name = <<"a", ".", "t", "a", "r", ".", "P", "N", "G">>
       /\ tree[j].name = <<"n", "o", "t", "j", "p", "g">>
  /\ Len(scan.value) = 1
  /\ Len(scan.value[1]) = 3

\* the images of a container: its elements, each an <img>, by source
Sources(c) == [i \in 1..Len(c) |-> c[i].src]

\* a call of fetchAndDisplayImages got its array and ran lines 153-175
Parsed == last.kind \in {"placeholder", "render", "throw"}

\* C2: when the scan finds no image the handler answers 200 with the empty
\* array and draws no count, and the page, given an array of length 0, shows
\* the placeholder paragraph and no image.
C2_EmptyScanGivesPlaceholder ==
  /\ (IMAGE_DIR # None /\ Scanned.value = <<>>) =>
       /\ RandomImages(IMAGE_DIR, rootStatus, tree)
            = {[status |-> "200", body |-> <<>>, count |-> 0]}
       /\ Parsed => last.kind = "placeholder"
  /\ (Parsed /\ last.urls = <<>>) =>
       /\ last.kind = "placeholder"
       /\ container = Placeholder

\* C2 witness: an empty directory, and the page has shown the placeholder
C2_Witness ==
  /\ IMAGE_DIR # None
  /\ rootStatus = "ok"
  /\ tree = <<>>
  /\ last.kind = "placeholder"
  /\ container = Placeholder

C7_NoOverlappingFetches == Len(cycles) <= 1

\* C7: the timer starts a call every interval whether or not an earlier one
\* is pending; two calls are pending together only when one of them has
\* been pending for a whole interval or longer.
C7_OverlapOnlyAfterInterval ==
  /\ Len(cycles) > 1 => \E i \in 1..Len(cycles) : cycles[i].age >= Interval
  /\ \A i, j \in 1..Len(cycles) :
       i < j => cycles[i].age >= cycles[j].age + Interval

\* C7 witness: the timer has fired while the previous call was pending
C7_Witness ==
  /\ Len(cycles) = 2
  /\ cycles[2] = NewCycle

\* C8: after a call that failed at the fetch or at the parse of the body the
\* container holds exactly what it held before the call failed.
C8_FailureLeavesContainer ==
  last.kind \in {"neterr", "parseerr"} => container = last.before

\* C8 witness: a body failed to parse while two images were on display
C8_Witness ==
  /\ last.kind = "parseerr"
  /\ Len(container) = 2
  /\ container[1].tag = "img"

\* a call of fetchAndDisplayImages has just been started
FetchStarted == \E i \in 1..Len(cycles) : cycles[i] = NewCycle

\* C9: the timer stays armed whatever the calls do, and a new call is
\* started again and again.
C9_TimerLoopForever == [](armed) /\ []<>FetchStarted

\* C9 witness: after a failed call the timer has started the next one
C9_Witness ==
  /\ last.kind \in {"neterr", "parseerr"}
  /\ cycles = <<NewCycle>>
  /\ armed

\* C10: after a call has rendered a selection of N URLs the container holds
\* exactly N image elements, their sources the selection's URLs in order,
\* whatever was on display before and whichever call came back first.
C10_ContainerIsOneSelection ==
  last.kind = "render" =>
    /\ Len(last.urls) \in 1..5
    /\ Len(container) = Len(last.urls)
    /\ \A i \in 1..Len(container) : container[i].tag = "img"
    /\ Sources(container) = last.urls

\* C10 witness: a later call rendered three images while an earlier call
\* was still pending
C10_Witness ==
  /\ last.kind = "render"
  /\ last.overtook
  /\ Len(last.urls) = 3
  /\ Len(cycles) = 1

====
